---- MODULE Spec2Model ----
(***************************************************************************)
(* Streaming group-by aggregation operator (package aggregate): the        *)
(* Aggregator (Consume, spillTable, nextResult, readSpills,                *)
(* nextResultFromSpills, readTable) and the pull-based driver Op (Pull,    *)
(* run, sendResult, reset) with its rendezvous channels.                   *)
(***************************************************************************)
EXTENDS Integers, Sequences, FiniteSets, Bags, TLC

\* ------------------------------------------------------------------------
\* Bounds of the model
\* ------------------------------------------------------------------------
MaxBatches == 2
MaxSortedBatches == 3
MaxBatchLen == 2
MaxEOS == 2
MaxUpErrs == 1
MaxDone == 1
MaxSpillFail == 1
MaxLiveBatches == 1
MaxLiveEOS == 1
MaxKey == 3             \* pool keys of the data objects are 1..MaxKey
MaxObjects == 4         \* objects the Slicer's parent returns
MaxSlicerNulls == 2     \* nulls the Slicer's parent returns to Pull(false)
MaxSlicerDone == 1      \* Pull(true) calls made on the Slicer
MaxSlicerErrs == 1      \* errors and multi-valued batches the Slicer's parent returns
MaxVec == 2             \* the vectors over and the parent of ScopeExit return are 1..MaxVec
MaxScopePulls == 4      \* calls of Scope.Pull
MaxExitAnswers == 4     \* answers of the parent of ScopeExit

\* var DefaultLimit: the limit used when none is configured
DefaultLimit == 1000000

\* op.BatchLen: the most records readSpills puts into one batch
BatchLen == 100

\* no spill handle
Null == "null"

\* no value (a nil *super.Value, the zero super.Value)
Nil == [t |-> "nil", b |-> 0]

\* the quiet value
Quiet == [t |-> "quiet", b |-> 0]

\* ------------------------------------------------------------------------
\* Values: a type and the flat encoded payload
\* ------------------------------------------------------------------------
IsError(v) == v.t = "error"

\* payload of a signed integer is its zigzag code, of an unsigned one the number
NumOf(v) == IF v.t = "int64"
            THEN (IF v.b % 2 = 0 THEN v.b \div 2 ELSE -((v.b + 1) \div 2))
            ELSE v.b

I64(n) == [t |-> "int64", b |-> IF n >= 0 THEN 2 * n ELSE -2 * n - 1]
U64(n) == [t |-> "uint64", b |-> n]
ErrVal(n) == [t |-> "error", b |-> n]

IsNumber(v) == v.t \in {"int64", "uint64"}

Sign(n) == IF n < 0 THEN -1 ELSE IF n > 0 THEN 1 ELSE 0

\* ascending comparison of two values: numbers of different types are coerced
\* and compared by value, an error sorts after every number
CompareAsc(x, y) ==
    IF IsNumber(x) /\ IsNumber(y) THEN Sign(NumOf(x) - NumOf(y))
    ELSE IF IsNumber(x) THEN -1
    ELSE IF IsNumber(y) THEN 1
    ELSE Sign(x.b - y.b)

\* order.Which(inputDir < 0): descending when the input direction is negative
valueCompare(c, x, y) == IF c.inputDir < 0 THEN CompareAsc(y, x) ELSE CompareAsc(x, y)

RECURSIVE CompareFrom(_, _, _, _)
CompareFrom(c, ka, kb, i) ==
    IF i > Len(ka) THEN 0
    ELSE LET r == valueCompare(c, ka[i], kb[i])
         IN IF r # 0 THEN r ELSE CompareFrom(c, ka, kb, i + 1)

\* compare all keys of two output records
keysComparator(c, ra, rb) == CompareFrom(c, ra.keys, rb.keys, 1)

\* compare the first key of two output records
keyCompare(c, ra, rb) == valueCompare(c, ra.keys[1], rb.keys[1])

\* ------------------------------------------------------------------------
\* Small helpers
\* ------------------------------------------------------------------------
Range(s) == {s[i] : i \in 1..Len(s)}

Perms(S) == {f \in [1..Cardinality(S) -> S] : \A i, j \in 1..Cardinality(S) : f[i] = f[j] => i = j}

RECURSIVE GCD(_, _)
GCD(m, n) == IF n = 0 THEN m ELSE GCD(n, m % n)

BagOfSeq(s) == [e \in Range(s) |-> Cardinality({i \in 1..Len(s) : s[i] = e})]

\* ------------------------------------------------------------------------
\* Aggregator functions (count, sum, avg) and a row of them
\* ------------------------------------------------------------------------
Aggs == <<"count", "sum", "avg">>

NewState(f) == IF f = "avg" THEN [s |-> 0, n |-> 0] ELSE 0

newValRow(aggs) == [i \in 1..Len(aggs) |-> NewState(aggs[i])]

\* apply(v): one fresh input record
ApplyFn(f, st, rec) ==
    CASE f = "count" -> st + 1
      [] f = "sum" -> st + rec.x
      [] f = "avg" -> [s |-> st.s + rec.x, n |-> st.n + 1]

\* consume_partial(v): merge a partial produced by ResultAsPartial
ConsumeAsPartialFn(f, st, v) ==
    CASE f = "count" -> IF v.t = "uint64" THEN st + v.b ELSE st
      [] f = "sum" -> IF v.t = "int64" THEN st + NumOf(v) ELSE st
      [] f = "avg" -> IF v.t = "record" THEN [s |-> st.s + v.s, n |-> st.n + v.n] ELSE st

\* result()
ResultFn(f, st) ==
    CASE f = "count" -> U64(st)
      [] f = "sum" -> I64(st)
      [] f = "avg" -> IF st.n = 0 THEN [t |-> "null", b |-> 0]
                      ELSE [t |-> "float64", num |-> st.s \div GCD(st.s, st.n),
                            den |-> st.n \div GCD(st.s, st.n)]

\* result_partial()
ResultAsPartialFn(f, st) ==
    CASE f = "count" -> U64(st)
      [] f = "sum" -> I64(st)
      [] f = "avg" -> [t |-> "record", s |-> st.s, n |-> st.n]

apply(aggs, row, rec) == [i \in 1..Len(aggs) |-> ApplyFn(aggs[i], row[i], rec)]

\* aggRefs select each aggregator's field of the input record
consumeAsPartial(aggs, row, rec) ==
    [i \in 1..Len(aggs) |->
        IF i <= Len(rec.aggs) THEN ConsumeAsPartialFn(aggs[i], row[i], rec.aggs[i]) ELSE row[i]]

Results(aggs, row, partialsOut) ==
    [i \in 1..Len(aggs) |->
        IF partialsOut THEN ResultAsPartialFn(aggs[i], row[i]) ELSE ResultFn(aggs[i], row[i])]

\* an output record: the key values and the aggregate values
OutRec(keys, aggvals) == [keys |-> keys, x |-> 0, aggs |-> aggvals]

\* an input record: the key values (or Quiet) and the aggregated field
InRec(keys, x) == [keys |-> keys, x |-> x, aggs |-> <<>>]

\* ------------------------------------------------------------------------
\* TypeVectorTable: a vector of types <-> a small dense integer
\* ------------------------------------------------------------------------
HasTypes(tab, types) == \E i \in 1..Len(tab) : tab[i] = types

Lookup(tab, types) ==
    IF HasTypes(tab, types) THEN CHOOSE i \in 1..Len(tab) : tab[i] = types
    ELSE Len(tab) + 1

Intern(tab, types) == IF HasTypes(tab, types) THEN tab ELSE Append(tab, types)

\* the first key of a record; none when there is no key expression
Prim(rec) == IF rec.keys = <<>> THEN Nil ELSE rec.keys[1]

\* ------------------------------------------------------------------------
\* Aggregator
\* ------------------------------------------------------------------------
NewAggregator ==
    [keyTypes |-> <<>>,
     table |-> <<>>,
     spiller |-> Null,
     spill |-> EmptyBag,
     maxTableKey |-> Nil,
     maxSpillKey |-> Nil]

\* an update that leaves the maximum as it is
updateMaxTableKeyNever(c, a, val) == a

\* an update that takes every value, smaller ones included
updateMaxTableKeyAlways(c, a, val) == [a EXCEPT !.maxTableKey = val]

\* updateMaxTableKey: a.maxTableKey after the call (the value the call returns)
updateMaxTableKey(c, a, val) ==
    IF a.maxTableKey = Nil \/ valueCompare(c, val, a.maxTableKey) > 0
    THEN [a EXCEPT !.maxTableKey = val]
    ELSE a

updateMaxSpillKey(c, a, v) ==
    IF a.maxSpillKey = Nil \/ valueCompare(c, v, a.maxSpillKey) > 0
    THEN [a EXCEPT !.maxSpillKey = v]
    ELSE a

\* a check for quiet that looks at the first key only
FirstQuietHead(rec) == IF Len(rec.keys) > 0 /\ rec.keys[1] = Quiet THEN 1 ELSE 0

\* index of the first key that evaluates to quiet, 0 if none
FirstQuiet(rec) ==
    IF \E i \in 1..Len(rec.keys) : rec.keys[i] = Quiet
    THEN CHOOSE i \in 1..Len(rec.keys) :
            rec.keys[i] = Quiet /\ \A j \in 1..(i - 1) : rec.keys[j] # Quiet
    ELSE 0

\* the key value decoded from a table key: slot i under the row's type vector
KeysOf(a, key, row) ==
    [i \in 1..Len(a.keyTypes[row.keyType]) |-> [t |-> a.keyTypes[row.keyType][i], b |-> key[i]]]

\* a selection that also takes the rows of the largest primary key
SelectedUpToMax(c, a, flush) ==
    {k \in DOMAIN a.table : flush \/ valueCompare(c, a.table[k].groupval, a.maxTableKey) <= 0}

\* the rows readTable selects: all of them on flush, else the completed ones
Selected(c, a, flush) ==
    {k \in DOMAIN a.table : flush \/ valueCompare(c, a.table[k].groupval, a.maxTableKey) < 0}

\* readTable: the records built (in map order, chosen by the caller) and the
\* table without the rows they were built from
readTableRecs(c, a, flush, partialsOut) ==
    {OutRec(KeysOf(a, k, a.table[k]), Results(c.aggs, a.table[k].reducers, partialsOut)) :
        k \in Selected(c, a, flush)}

readTableRest(c, a, flush) ==
    [a EXCEPT !.table = [k \in (DOMAIN a.table) \ Selected(c, a, flush) |-> a.table[k]]]

\* the largest record of a spilled batch under the keys comparator
LastSorted(c, recs) == CHOOSE r \in recs : \A q \in recs : keysComparator(c, q, r) <= 0

\* a spillTable that writes the rows in the form the output has
spillTableAsOutput(c, a, eof, fail) ==
    LET \* a.updateMaxSpillKey(val) after a spill before EOF of sorted input
        Spilled(a2, val) ==
            IF ~eof /\ c.inputDir # 0 /\ ~IsError(val)
            THEN [a |-> updateMaxSpillKey(c, a2, val), err |-> FALSE]
            ELSE [a |-> a2, err |-> FALSE]
        \* recs: the batch readTable returned, a1: the aggregator it left
        Write(recs, a1) ==
            IF recs = {} THEN [a |-> a1, err |-> FALSE]
            ELSE IF fail = "NewMergeSort" /\ a.spiller = Null THEN [a |-> a1, err |-> TRUE]
            ELSE IF fail # "none" THEN [a |-> [a1 EXCEPT !.spiller = "open"], err |-> TRUE]
            ELSE Spilled([a1 EXCEPT !.spiller = "open", !.spill = a.spill (+) SetToBag(recs)],
                         LastSorted(c, recs).keys[1])
    IN Write(readTableRecs(c, a, TRUE, c.partialsOut), readTableRest(c, a, TRUE))

\* spillTable: [a, err]; fail names the collaborator call that fails, if any
spillTable(c, a, eof, fail) ==
    LET \* a.updateMaxSpillKey(val) after a spill before EOF of sorted input
        Spilled(a2, val) ==
            IF ~eof /\ c.inputDir # 0 /\ ~IsError(val)
            THEN [a |-> updateMaxSpillKey(c, a2, val), err |-> FALSE]
            ELSE [a |-> a2, err |-> FALSE]
        \* recs: the batch readTable returned, a1: the aggregator it left
        Write(recs, a1) ==
            IF recs = {} THEN [a |-> a1, err |-> FALSE]
            ELSE IF fail = "NewMergeSort" /\ a.spiller = Null THEN [a |-> a1, err |-> TRUE]
            ELSE IF fail # "none" THEN [a |-> [a1 EXCEPT !.spiller = "open"], err |-> TRUE]
            ELSE Spilled([a1 EXCEPT !.spiller = "open", !.spill = a.spill (+) SetToBag(recs)],
                         LastSorted(c, recs).keys[1])
    IN Write(readTableRecs(c, a, TRUE, TRUE), readTableRest(c, a, TRUE))

\* a trigger that lets the table grow one row past the limit
AtLimitOffByOne(c, a) == Cardinality(DOMAIN a.table) > c.limit

\* if len(a.table) >= a.limit
AtLimit(c, a) == Cardinality(DOMAIN a.table) >= c.limit

\* Consume: [a, err]
Consume(c, a, rec, fail) ==
    LET sorted == c.inputDir # 0 /\ Len(rec.keys) > 0
        types == [i \in 1..Len(rec.keys) |-> rec.keys[i].t]
        \* a.table[string(keyBytes)] = row, then the row's reducers take the record
        Put(a2, keyBytes, row) ==
            [a |-> [a2 EXCEPT !.table =
                       [k \in (DOMAIN a2.table) \cup {keyBytes} |->
                           IF k = keyBytes
                           THEN [row EXCEPT !.reducers =
                                    IF c.partialsIn THEN consumeAsPartial(c.aggs, @, rec)
                                    ELSE apply(c.aggs, @, rec)]
                           ELSE a2.table[k]]],
             err |-> FALSE]
        \* a new row, after the spill (if any) of a table at its limit
        Create(sp, keyBytes, keyType, prim) ==
            IF sp.err THEN sp
            ELSE Put(sp.a, keyBytes,
                     [keyType |-> keyType, groupval |-> prim, reducers |-> newValRow(c.aggs)])
        Find(a1, keyBytes, keyType, prim) ==
            IF keyBytes \in DOMAIN a1.table THEN Put(a1, keyBytes, a1.table[keyBytes])
            ELSE Create(IF AtLimit(c, a1)
                        THEN spillTable(c, a1, FALSE, fail)
                        ELSE [a |-> a1, err |-> FALSE],
                        keyBytes, keyType, prim)
        \* the key bytes end in the key type id
        Keyed(a0, keyType) ==
            Find([a0 EXCEPT !.keyTypes = Intern(@, types)],
                 [i \in 1..(Len(rec.keys) + 1) |->
                     IF i <= Len(rec.keys) THEN rec.keys[i].b ELSE keyType],
                 keyType,
                 IF sorted THEN a0.maxTableKey ELSE Nil)
        \* a0: after updateMaxTableKey of the first key
        Eval(a0) ==
            IF FirstQuiet(rec) # 0 THEN [a |-> a0, err |-> FALSE]
            ELSE Keyed(a0, Lookup(a0.keyTypes, types))
    IN Eval(IF sorted /\ rec.keys[1] # Quiet THEN updateMaxTableKey(c, a, rec.keys[1]) ELSE a)

\* ------------------------------------------------------------------------
\* Reading the merged spills
\* ------------------------------------------------------------------------
\* the records Peek may return: the least ones of the merged stream
MinRecs(c, spill) ==
    {r \in BagToSet(spill) : \A q \in BagToSet(spill) : keysComparator(c, r, q) <= 0}

\* the maximal run of records whose full key equals that of firstRec
RunOf(c, spill, firstRec) ==
    [r \in {q \in BagToSet(spill) : keysComparator(c, firstRec, q) = 0} |-> spill[r]]

RECURSIVE ConsumeRun(_, _, _)
ConsumeRun(aggs, row, run) ==
    IF BagToSet(run) = {} THEN row
    ELSE LET Rest(r) == ConsumeRun(aggs, consumeAsPartial(aggs, row, r), run (-) SetToBag({r}))
         IN Rest(CHOOSE q \in BagToSet(run) : TRUE)

\* nextResultFromSpills, given the record Peek returned first: [a, rec]
nextResultFromSpills(c, a, firstRec) ==
    LET Merged(run) ==
            [a |-> [a EXCEPT !.spill = a.spill (-) run],
             rec |-> OutRec(firstRec.keys,
                            Results(c.aggs, ConsumeRun(c.aggs, newValRow(c.aggs), run),
                                    c.partialsOut))]
    IN Merged(RunOf(c, a.spill, firstRec))

\* readSpills stops before a record whose primary key may receive more data
StopsEarly(c, a, eof) ==
    /\ ~eof /\ c.inputDir # 0
    /\ \E r \in MinRecs(c, a.spill) :
          ~IsError(r.keys[1]) /\ valueCompare(c, r.keys[1], a.maxSpillKey) >= 0

\* readSpills: the set of possible [a, recs], one per way the merge orders
\* records that compare equal
RECURSIVE readSpillsFrom(_, _, _, _)
readSpillsFrom(c, a, eof, recs) ==
    IF Len(recs) >= BatchLen \/ BagToSet(a.spill) = {} \/ StopsEarly(c, a, eof)
    THEN {[a |-> a, recs |-> recs]}
    ELSE UNION {LET Next1(n) == readSpillsFrom(c, n.a, eof, Append(recs, n.rec))
                IN Next1(nextResultFromSpills(c, a, f)) : f \in MinRecs(c, a.spill)}

readSpills(c, a, eof) ==
    IF ~eof /\ c.inputDir = 0 THEN {[a |-> a, recs |-> <<>>]}
    ELSE readSpillsFrom(c, a, eof, <<>>)

\* slices.SortStableFunc(vals, keyCompare): insertion of each record after the
\* records that do not compare greater
RECURSIVE InsertStable(_, _, _)
InsertStable(c, s, r) ==
    IF s = <<>> THEN <<r>>
    ELSE IF keyCompare(c, s[Len(s)], r) <= 0 THEN Append(s, r)
    ELSE Append(InsertStable(c, SubSeq(s, 1, Len(s) - 1), r), s[Len(s)])

RECURSIVE SortStable(_, _)
SortStable(c, s) ==
    IF s = <<>> THEN <<>>
    ELSE InsertStable(c, SortStable(c, SubSeq(s, 1, Len(s) - 1)), s[Len(s)])

\* nkeys := len(keyExprs); a.valueCompare is assigned
\* only if nkeys > 0 && inputDir != 0
HasValueCompare(c) == Len((CHOOSE r \in c.recs : TRUE).keys) > 0 /\ c.inputDir # 0

\* readTable panics: "tried to fetch completed tuples on non-sorted input" when
\* it finds a row and has no comparator, nil dereference of a.maxTableKey
readTablePanics(c, a, flush) ==
    /\ ~flush
    /\ DOMAIN a.table # {}
    /\ (~HasValueCompare(c) \/ a.maxTableKey = Nil)

\* readSpills panics: a peeked record whose first key is no error is compared
\* with *a.maxSpillKey, a nil dereference when no maximum was ever set
\* (records with an error key before it in the merge are consumed first)
readSpillsPanics(c, a, eof) ==
    /\ ~eof /\ c.inputDir # 0
    /\ a.maxSpillKey = Nil
    /\ \E r \in BagToSet(a.spill) : ~IsError(Prim(r))

\* nextResult panics
nextResultPanics(c, a, eof) ==
    IF a.spiller = Null THEN readTablePanics(c, a, eof) ELSE readSpillsPanics(c, a, eof)

\* a nextResult that at EOF flushes a non-empty table directly, spills or not
nextResultTableFirst(c, a, eof, fail) ==
    IF a.spiller = Null \/ (eof /\ DOMAIN a.table # {})
    THEN {[a |-> readTableRest(c, a, eof), recs |-> p, err |-> FALSE] :
             p \in Perms(readTableRecs(c, a, eof, c.partialsOut))}
    ELSE {[a |-> o.a, recs |-> o.recs, err |-> FALSE] : o \in readSpills(c, a, eof)}

\* nextResult: the set of possible [a, recs, err]; recs = <<>> is the nil batch
nextResult(c, a, eof, fail) ==
    IF a.spiller = Null
    THEN {[a |-> readTableRest(c, a, eof), recs |-> p, err |-> FALSE] :
             p \in Perms(readTableRecs(c, a, eof, c.partialsOut))}
    ELSE LET Read(sp) ==
                 IF sp.err \/ fail = "Peek" THEN {[a |-> sp.a, recs |-> <<>>, err |-> TRUE]}
                 ELSE {[a |-> o.a, recs |-> o.recs, err |-> FALSE] : o \in readSpills(c, sp.a, eof)}
         IN Read(IF eof THEN spillTable(c, a, TRUE, fail) ELSE [a |-> a, err |-> FALSE])

\* ------------------------------------------------------------------------
\* meta.Slicer: data objects collected into partitions
\* ------------------------------------------------------------------------
\* a nil *super.Value (s.min, s.max)
NilKey == 0

\* the data objects the parent can return: Min <= Max
Objects == {o \in [Min : 1..MaxKey, Max : 1..MaxKey] : o.Min <= o.Max}

\* expr.NewValueCompareFn(order.Asc, order.NullsLast) on two keys
cmp(x, y) == Sign(x - y)

\* &Slicer{...}: no object, s.min and s.max nil
NewSlicer == [objects |-> <<>>, min |-> NilKey, max |-> NilKey]

\* the loop of nextPartition over s.objects[1:], from index i
RECURSIVE PartitionRange(_, _, _, _)
PartitionRange(objs, i, min, max) ==
    IF i > Len(objs) THEN [Min |-> min, Max |-> max]
    ELSE PartitionRange(objs, i + 1,
                        IF cmp(objs[i].Min, min) < 0 THEN objs[i].Min ELSE min,
                        IF cmp(objs[i].Max, max) > 0 THEN objs[i].Max ELSE max)

\* &Partition{Min, Max, Objects}
Partition(min, max, objects) == [Min |-> min, Max |-> max, Objects |-> objects]

\* a nil zbuf.Batch
NoBatch == Partition(NilKey, NilKey, <<>>)

\* nextPartition: [s, batch]; batch is NoBatch or the partition of s.objects
nextPartition(s) ==
    IF Len(s.objects) = 0 THEN [s |-> s, batch |-> NoBatch]
    ELSE LET r == PartitionRange(s.objects, 2, s.objects[1].Min, s.objects[1].Max)
         IN [s |-> [s EXCEPT !.objects = <<>>],
             batch |-> Partition(r.Min, r.Max, s.objects)]

\* stash: [s, batch]; the partition is cut when the object is before s.min
\* or after s.max
stash(s, o) ==
    LET cut == Len(s.objects) > 0 /\ (cmp(o.Max, s.min) < 0 \/ cmp(o.Min, s.max) > 0)
        np == nextPartition(s)
        s1 == IF cut THEN [np.s EXCEPT !.min = NilKey, !.max = NilKey] ELSE s
    IN [s |-> [s1 EXCEPT !.objects = Append(@, o),
                         !.min = IF s1.min = NilKey \/ cmp(s1.min, o.Min) > 0 THEN o.Min ELSE @,
                         !.max = IF s1.max = NilKey \/ cmp(s1.max, o.Max) < 0 THEN o.Max ELSE @],
        batch |-> IF cut THEN np.batch ELSE NoBatch]

\* the parent of the Slicer and the caller of Pull, with what has been pulled
\* and returned since the parent's last null
NewSlicerEnv ==
    [pc |-> "idle",         \* "pull": a caller holds s.mu and is in the loop of Pull
     done |-> FALSE,        \* the argument of the call
     ret |-> [kind |-> "none"],
     objects |-> MaxObjects, nulls |-> MaxSlicerNulls,
     dones |-> MaxSlicerDone, errs |-> MaxSlicerErrs,
     lastMin |-> 1,         \* Min of the last object the parent returned
     streams |-> 0,         \* nulls the parent has returned
     stream |-> <<>>,       \* objects returned by the parent since its last null
     parts |-> <<>>,        \* partitions returned by Pull since then
     ended |-> FALSE]       \* the parent's last answer was a null

\* ------------------------------------------------------------------------
\* Scope and ScopeExit: the ends of the scope of an over operator
\* ------------------------------------------------------------------------
\* what a Pull returns or a puller answers: a vector, nil, or an error
VecAnswers == {[kind |-> "vec", vec |-> v] : v \in 1..MaxVec}
NullAnswer == [kind |-> "null", vec |-> 0]
ErrAnswer == [kind |-> "err", vec |-> 0]
NoAnswer == [kind |-> "none", vec |-> 0]

\* o.NewScope(): &Scope{o, false}, and the callers' view of it
NewScope ==
    [sendEOS |-> FALSE,
     ret |-> NoAnswer,      \* what the last Pull returned
     prev |-> NoAnswer,     \* what the Pull before it returned
     done |-> FALSE,        \* the argument of the last Pull
     overPulls |-> 0,       \* calls of s.over.Pull made
     pulls |-> 0]           \* calls of Pull made

\* o.NewScopeExit(parent): &ScopeExit{o, parent, false}, its caller and parent
NewScopeExit ==
    [firstEOS |-> FALSE,
     pc |-> "idle",         \* "pull": in the loop of Pull(false); "done": in Pull(true)
     ret |-> NoAnswer,      \* what the last Pull returned
     done |-> FALSE,        \* the argument of the last Pull
     last |-> NoAnswer,     \* the last answer of the parent
     items |-> <<>>,        \* the last two vectors and nulls the parent has answered
     skipped |-> 0,         \* nulls of the parent after which Pull(false) pulled again
     passed |-> 0,          \* vectors of the parent returned by Pull(false)
     answers |-> 0]         \* answers of the parent so far

\* the last two of the items with one more
LastTwo(items, a) == IF Len(items) < 2 THEN Append(items, a) ELSE <<items[2], a>>

\* ------------------------------------------------------------------------
\* The operator: producer task (Op.run), downstream caller (Op.Pull),
\* upstream puller and runtime context
\* ------------------------------------------------------------------------
VARIABLES
    cfg,        \* the configuration New was called with
    agg,        \* o.agg
    pc,         \* where the producer task is
    res,        \* the result sendResult is offering: [recs, err]
    sctx,       \* the call site of the pending sendResult
    obatch,     \* o.batch # nil
    ds,         \* where the downstream caller is
    ret,        \* what the last Pull returned to downstream
    ctxDone,    \* o.rctx is cancelled
    up,         \* the upstream puller: what it has returned so far
    sub,        \* history of the current sub-stream
    cancelled,  \* history: a done marker has been accepted
    slicer,     \* a meta.Slicer: objects, min, max
    slenv,      \* the Slicer's parent and the caller of its Pull
    scope,      \* a Scope with its callers
    scopeExit,  \* a ScopeExit with its caller and parent
    hist        \* history of the producer: spill handles, errors, batch references

vars == <<cfg, agg, pc, res, sctx, obatch, ds, ret, ctxDone, up, sub, cancelled, hist,
          slicer, slenv, scope, scopeExit>>

NoRes == [recs |-> <<>>, err |-> "none"]

NewSub ==
    [inp |-> <<>>,          \* records given to Consume
     out |-> EmptyBag,      \* rows delivered downstream
     early |-> {},          \* [prim, n]: a row delivered before EOF, after n records
     sorted |-> TRUE,       \* the delivered rows are in primary-key order
     last |-> Nil,         \* primary key of the last delivered row
     eof |-> FALSE,         \* upstream has returned the end of the sub-stream
     closed |-> FALSE,      \* downstream has received the end-of-stream null
     clean |-> TRUE]        \* no error so far

\* what the environment may still do (batches and ends of stream upstream may
\* still return, errors it may return, done markers downstream may send, spill
\* calls that may fail, whether the context may be cancelled) and the primary
\* key of the last record of the current sub-stream
NewUp(b) == [batches |-> b.batches, eos |-> b.eos, errs |-> b.errs, dones |-> b.dones,
             fails |-> b.fails, cancel |-> b.cancel, last |-> Nil]

NewHist ==
    [created |-> 0,     \* spill handles spill.NewMergeSort has returned
     live |-> 0,        \* of these, the ones Cleanup has not been called on
     upErr |-> FALSE,   \* upstream has returned an error that is not delivered yet
     upSent |-> FALSE,  \* an error upstream returned has been delivered downstream
     fatal |-> FALSE,   \* a spill has failed in Consume or in the drain at EOF
     inref |-> 0,       \* references of the last pulled batch the producer has to release
     reset |-> FALSE,   \* Resetter.Reset has been called since the last record was consumed
     started |-> 0,     \* producer tasks started (go o.run())
     wgAdd |-> 0,       \* calls of o.rctx.WaitGroup.Add(1)
     wgDone |-> 0,      \* calls of o.rctx.WaitGroup.Done()
     proto |-> <<>>]    \* what sendResult did for the last done marker, in order, until
                        \* the next upstream Pull(false)

\* o.resetter.Reset()
ResetterReset(h) == [h EXCEPT !.reset = TRUE]

\* a sendResult that hands a nil batch over without resetting
ResetOnNilSkipped(h, b) == h

\* sendResult: if b == nil { o.resetter.Reset() }
ResetOnNil(h, b) == IF b = <<>> THEN ResetterReset(h) ELSE h

\* o.parent.Pull(false) is called
UpstreamPull(h) == [h EXCEPT !.proto = <<>>]

\* Op.reset, in the order of its statements
resetSteps(a, ob) ==
    (IF a.spiller # Null THEN <<"cleanup", "dropSpiller">> ELSE <<>>)
        \o <<"newTable">>
        \o (IF ob THEN <<"unrefBatch">> ELSE <<>>)
        \o <<"resetterReset">>

\* a doneCh case that tells upstream before it resets
DoneStepsPullFirst(b, a, ob) ==
    <<"pullDone">> \o (IF b # <<>> THEN <<"unrefResult">> ELSE <<>>) \o resetSteps(a, ob)

\* sendResult, case <-o.doneCh: b.Unref(), o.reset(), o.parent.Pull(true)
DoneSteps(b, a, ob) ==
    (IF b # <<>> THEN <<"unrefResult">> ELSE <<>>) \o resetSteps(a, ob) \o <<"pullDone">>

InitWith(configs, budget) ==
    /\ cfg \in configs
    /\ agg = NewAggregator
    /\ pc = "idle"
    /\ res = NoRes
    /\ sctx = "none"
    /\ obatch = FALSE
    /\ ds = "idle"
    /\ ret = [kind |-> "none"]
    /\ ctxDone = FALSE
    /\ up = NewUp(budget)
    /\ sub = NewSub
    /\ cancelled = FALSE
    /\ hist = NewHist
    /\ slicer = NewSlicer
    /\ slenv = NewSlicerEnv
    /\ scope = NewScope
    /\ scopeExit = NewScopeExit

\* --- upstream batches ---------------------------------------------------
SeqsUpTo(S, n) == UNION {[1..k -> S] : k \in 1..n}

\* the batch continues a sub-stream sorted on the primary key
SortedAfter(c, last, batch) ==
    \A i \in 1..Len(batch) :
        /\ Prim(batch[i]) # Quiet
        /\ (i = 1 /\ last # Nil) => valueCompare(c, last, Prim(batch[i])) <= 0
        /\ i > 1 => valueCompare(c, Prim(batch[i - 1]), Prim(batch[i])) <= 0

\* Consume the values of a batch in turn, stopping at the first error;
\* failAt is the value whose spill fails (0: none): [a, err, n]
RECURSIVE ConsumeFrom(_, _, _, _, _, _)
ConsumeFrom(c, a, batch, i, failAt, fail) ==
    IF i > Len(batch) THEN [a |-> a, err |-> FALSE, n |-> Len(batch)]
    ELSE LET Then(r) == IF r.err THEN [a |-> r.a, err |-> TRUE, n |-> i]
                        ELSE ConsumeFrom(c, r.a, batch, i + 1, failAt, fail)
         IN Then(Consume(c, a, batch[i], IF i = failAt THEN fail ELSE "none"))

\* the sub-stream the next consumed or pulled input belongs to
CurSub == IF sub.closed THEN NewSub ELSE sub

Fails == {"NewMergeSort", "Spill"}

\* run returns; the deferred function registered last runs first: close(o.resultCh)
Exit ==
    /\ pc' = "closed"
    /\ res' = NoRes
    /\ sctx' = "none"

\* a spill handle was created by this call: a.spiller was nil and is not any more
Created(a, a2) == IF a.spiller = Null /\ a2.spiller # Null THEN 1 ELSE 0

\* if o.agg.spiller != nil { o.agg.spiller.Cleanup() }
Cleanup(a, h) == IF a.spiller # Null THEN [h EXCEPT !.live = @ - 1] ELSE h

\* a deferred function that only tells the context that run has finished
RunWithoutCleanup ==
    /\ pc = "closed"
    /\ pc' = "exit"
    /\ hist' = [hist EXCEPT !.wgDone = @ + 1]
    /\ UNCHANGED <<scope, scopeExit, slicer, slenv, cfg, agg, res, sctx, obatch, ds, ret, ctxDone, up, sub, cancelled>>

\* the deferred function registered first runs last: Cleanup, then WaitGroup.Done
RunCleanup ==
    /\ pc = "closed"
    /\ pc' = "exit"
    /\ hist' = [Cleanup(agg, hist) EXCEPT !.wgDone = @ + 1]
    /\ UNCHANGED <<scope, scopeExit, slicer, slenv, cfg, agg, res, sctx, obatch, ds, ret, ctxDone, up, sub, cancelled>>

\* batch.Unref() at the end of an iteration of run
Unref(h) == [h EXCEPT !.inref = @ - 1]

\* o.parent.Pull(false) returns a batch: Consume every value
UpPullBatch ==
    /\ pc = "pull"
    /\ up.batches > 0
    /\ \E batch \in SeqsUpTo(cfg.recs, MaxBatchLen), failAt \in 0..MaxBatchLen, fail \in Fails :
        /\ cfg.inputDir # 0 => SortedAfter(cfg, IF sub.closed THEN Nil ELSE up.last, batch)
        /\ failAt # 0 => up.fails > 0
        /\ failAt = 0 => fail = "Spill"
        /\ \E r \in {ConsumeFrom(cfg, agg, batch, 1, failAt, fail)} :
              /\ failAt # 0 => (r.err /\ r.n = failAt)
              /\ agg' = r.a
              /\ obatch' = TRUE
              /\ up' = [up EXCEPT !.batches = @ - 1,
                                  !.fails = IF r.err THEN @ - 1 ELSE @,
                                  !.last = IF cfg.inputDir # 0 THEN Prim(batch[r.n]) ELSE Nil]
              /\ sub' = [CurSub EXCEPT !.inp = @ \o SubSeq(batch, 1, r.n),
                                       !.clean = @ /\ ~r.err]
              /\ IF r.err
                 THEN /\ pc' = "send"
                      /\ res' = [recs |-> <<>>, err |-> "spill"]
                      /\ sctx' = "consume"
                 ELSE /\ pc' = IF cfg.inputDir = 0 THEN "pull" ELSE "early"
                      /\ UNCHANGED <<res, sctx>>
              /\ hist' = [hist EXCEPT !.created = @ + Created(agg, r.a),
                                      !.live = @ + Created(agg, r.a),
                                      !.fatal = @ \/ r.err,
                                      !.inref = IF cfg.inputDir = 0 /\ ~r.err THEN 0 ELSE 1,
                                      !.reset = IF r.err THEN ResetOnNil(hist, <<>>).reset ELSE FALSE,
                                      !.proto = <<>>]
    /\ UNCHANGED <<scope, scopeExit, slicer, slenv, cfg, ds, ret, ctxDone, cancelled>>

\* o.parent.Pull(false) returns a batch without values; the producer keeps a
\* reference in o.batch if it holds none
UpPullEmpty ==
    /\ pc = "pull"
    /\ pc' = "values"
    /\ obatch' = TRUE
    /\ sub' = CurSub
    /\ hist' = [UpstreamPull(hist) EXCEPT !.inref = 1]
    /\ UNCHANGED <<scope, scopeExit, slicer, slenv, cfg, agg, res, sctx, ds, ret, ctxDone, up, cancelled>>

\* for i := range vals finds no value; unsorted input: batch.Unref(), continue
ConsumeEmpty ==
    /\ pc = "values"
    /\ pc' = IF cfg.inputDir = 0 THEN "pull" ELSE "early"
    /\ hist' = IF cfg.inputDir = 0 THEN Unref(hist) ELSE hist
    /\ UNCHANGED <<scope, scopeExit, slicer, slenv, cfg, agg, res, sctx, obatch, ds, ret, ctxDone, up, sub, cancelled>>

\* o.parent.Pull(false) returns nil: end of the sub-stream
UpPullEOS ==
    /\ pc = "pull"
    /\ up.eos > 0
    /\ pc' = "drain"
    /\ up' = [up EXCEPT !.eos = @ - 1, !.last = Nil]
    /\ sub' = [CurSub EXCEPT !.eof = TRUE]
    /\ hist' = UpstreamPull(hist)
    /\ UNCHANGED <<scope, scopeExit, slicer, slenv, cfg, agg, res, sctx, obatch, ds, ret, ctxDone, cancelled>>

\* a producer that drops the error upstream returned and pulls again
UpPullErrDropped ==
    /\ pc = "pull"
    /\ up.errs > 0
    /\ up' = [up EXCEPT !.errs = @ - 1]
    /\ sub' = [CurSub EXCEPT !.clean = FALSE]
    /\ hist' = [hist EXCEPT !.upErr = TRUE]
    /\ UNCHANGED <<scope, scopeExit, slicer, slenv, cfg, agg, pc, res, sctx, obatch, ds, ret, ctxDone, cancelled>>

\* o.parent.Pull(false) returns an error
UpPullErr ==
    /\ pc = "pull"
    /\ up.errs > 0
    /\ pc' = "send"
    /\ res' = [recs |-> <<>>, err |-> "upstream"]
    /\ sctx' = "pull"
    /\ up' = [up EXCEPT !.errs = @ - 1]
    /\ sub' = [CurSub EXCEPT !.clean = FALSE]
    /\ hist' = [ResetOnNil(UpstreamPull(hist), <<>>) EXCEPT !.upErr = TRUE]
    /\ UNCHANGED <<scope, scopeExit, slicer, slenv, cfg, agg, obatch, ds, ret, ctxDone, cancelled>>

\* sendResults: b, err := o.agg.nextResult(true, o.batch)
NextResultEOF ==
    /\ pc = "drain"
    /\ \E fail \in Fails \cup {"none"} :
        /\ fail # "none" => up.fails > 0
        /\ \E o \in nextResult(cfg, agg, TRUE, fail) :
            /\ fail # "none" => o.err
            /\ agg' = o.a
            /\ res' = [recs |-> o.recs, err |-> IF o.err THEN "spill" ELSE "none"]
            /\ up' = [up EXCEPT !.fails = IF o.err THEN @ - 1 ELSE @]
            /\ sub' = [sub EXCEPT !.clean = @ /\ ~o.err]
            /\ hist' = [ResetOnNil(hist, o.recs) EXCEPT !.fatal = @ \/ o.err]
    /\ pc' = "send"
    /\ sctx' = "drain"
    /\ UNCHANGED <<scope, scopeExit, slicer, slenv, cfg, obatch, ds, ret, ctxDone, cancelled>>

\* sorted input: o.agg.nextResult(false, batch) panics; the program ends
NextResultPanics ==
    /\ pc = "early"
    /\ nextResultPanics(cfg, agg, FALSE)
    /\ pc' = "panic"
    /\ UNCHANGED <<scope, scopeExit, slicer, slenv, cfg, agg, res, sctx, obatch, ds, ret, ctxDone, up, sub, cancelled, hist>>

\* sorted input: res, err := o.agg.nextResult(false, batch)
NextResultEarly ==
    /\ pc = "early"
    /\ ~nextResultPanics(cfg, agg, FALSE)
    /\ \E fail \in {"Peek", "none"} :
        /\ fail # "none" => up.fails > 0
        /\ \E o \in nextResult(cfg, agg, FALSE, fail) :
            /\ fail # "none" => o.err
            /\ agg' = o.a
            /\ up' = [up EXCEPT !.fails = IF o.err THEN @ - 1 ELSE @]
            /\ sub' = [sub EXCEPT !.clean = @ /\ ~o.err]
            /\ IF o.err
               THEN /\ pc' = "send"
                    /\ res' = [recs |-> <<>>, err |-> "spill"]
                    /\ sctx' = "earlyErr"
               ELSE IF o.recs = <<>>
               THEN /\ pc' = "pull"
                    /\ UNCHANGED <<res, sctx>>
               ELSE /\ pc' = "send"
                    /\ res' = [recs |-> SortStable(cfg, o.recs), err |-> "none"]
                    /\ sctx' = "early"
            /\ hist' = IF o.err THEN ResetOnNil(hist, <<>>)
                       ELSE IF o.recs = <<>> THEN Unref(hist) ELSE hist
    /\ UNCHANGED <<scope, scopeExit, slicer, slenv, cfg, obatch, ds, ret, ctxDone, cancelled>>

\* --- sendResult -----------------------------------------------------------
\* history: the rows of a delivered batch
Deliver(h, recs) ==
    [h EXCEPT
        !.out = @ (+) BagOfSeq(recs),
        !.early = IF h.eof THEN @
                  ELSE @ \cup {[prim |-> Prim(recs[i]), n |-> Len(h.inp)] : i \in 1..Len(recs)},
        !.sorted = /\ @
                   /\ (h.last # Nil /\ recs # <<>>) =>
                          valueCompare(cfg, h.last, Prim(recs[1])) <= 0
                   /\ \A i \in 1..(Len(recs) - 1) :
                          valueCompare(cfg, Prim(recs[i]), Prim(recs[i + 1])) <= 0,
        !.last = IF recs = <<>> THEN @ ELSE Prim(recs[Len(recs)]),
        !.closed = recs = <<>> /\ res.err = "none" /\ sctx = "drain"]

\* a sendResults that returns after the first batch it has sent
ContinueAfterFirstBatch(done) ==
    CASE sctx = "pull" -> /\ pc' = "pull"
                          /\ UNCHANGED obatch
      [] sctx = "drain" -> /\ pc' = "pull"
                           /\ obatch' = FALSE
      [] sctx = "earlyErr" -> /\ pc' = "pull"
                              /\ UNCHANGED obatch
      [] sctx = "early" -> /\ pc' = IF done THEN "pull" ELSE "early"
                           /\ UNCHANGED obatch

\* what run does when sendResult returns ok: done is true after a done marker
Continue(done) ==
    CASE sctx = "pull" -> /\ pc' = "pull"
                          /\ UNCHANGED obatch
      [] sctx = "drain" -> IF res.recs = <<>> \/ done
                           THEN /\ pc' = "pull"
                                /\ obatch' = FALSE
                           ELSE /\ pc' = "drain"
                                /\ UNCHANGED obatch
      [] sctx = "earlyErr" -> /\ pc' = "pull"
                              /\ UNCHANGED obatch
      [] sctx = "early" -> /\ pc' = IF done THEN "pull" ELSE "early"
                           /\ UNCHANGED obatch

\* case o.resultCh <- op.Result{Batch: b, Err: err}, received by a Pull(false)
SendResult ==
    /\ pc = "send"
    /\ ds = "recv"
    /\ ds' = "idle"
    /\ ret' = [kind |-> IF res.err # "none" THEN "err"
                        ELSE IF res.recs = <<>> THEN "null" ELSE "batch"]
    /\ sub' = IF res.err = "none" THEN Deliver(sub, res.recs) ELSE sub
    /\ IF sctx = "consume"
       THEN Exit /\ UNCHANGED obatch
       ELSE Continue(FALSE) /\ res' = NoRes /\ sctx' = "none"
    /\ hist' = [(IF sctx = "earlyErr" THEN Unref(hist) ELSE hist)
                   EXCEPT !.upErr = FALSE, !.upSent = @ \/ hist.upErr]
    /\ UNCHANGED <<scope, scopeExit, slicer, slenv, cfg, agg, ctxDone, up, cancelled>>

\* a reset that cleans the spiller up but keeps the table of the cancelled sub-stream
resetKeepingTable(a) == [a EXCEPT !.spiller = Null, !.spill = EmptyBag]

\* Op.reset
reset(a) == [a EXCEPT !.spiller = Null, !.spill = EmptyBag, !.table = <<>>]

\* case <-o.doneCh: the marker of a Pull(true); reset, then o.parent.Pull(true)
AcceptDone ==
    /\ pc = "send"
    /\ ds = "done"
    /\ ds' = "idle"
    /\ ret' = [kind |-> "null"]
    /\ agg' = reset(agg)
    /\ cancelled' = TRUE
    /\ sub' = NewSub
    /\ \E pullErr \in BOOLEAN :
        /\ pullErr => up.errs > 0
        /\ up' = [up EXCEPT !.errs = IF pullErr THEN @ - 1 ELSE @, !.last = Nil]
        /\ IF res.err # "none" \/ pullErr
           THEN /\ pc' = "sendErr"
                /\ res' = [recs |-> <<>>, err |-> IF res.err # "none" THEN res.err ELSE "upstream"]
                /\ sctx' = "none"
                /\ obatch' = FALSE
           ELSE /\ IF sctx \in {"pull", "earlyErr", "early"}
                   THEN pc' = "pull" /\ obatch' = FALSE
                   ELSE Continue(TRUE)
                /\ res' = NoRes
                /\ sctx' = "none"
        /\ hist' = [ResetterReset(IF res.err = "none" /\ ~pullErr /\ sctx \in {"earlyErr", "early"}
                                  THEN Unref(Cleanup(agg, hist))
                                  ELSE Cleanup(agg, hist))
                       EXCEPT !.proto = DoneSteps(res.recs, agg, obatch)]
    /\ UNCHANGED <<scope, scopeExit, slicer, slenv, cfg, ctxDone>>

\* sendResult, case <-o.rctx.Done(): run returns
SendCtxDone ==
    /\ pc \in {"send", "sendErr"}
    /\ ctxDone
    /\ Exit
    /\ UNCHANGED <<scope, scopeExit, slicer, slenv, cfg, agg, obatch, ds, ret, ctxDone, up, sub, cancelled, hist>>

\* a producer that goes on pulling after it has sent the error of a done marker
SendDoneErrContinues ==
    /\ pc = "sendErr"
    /\ ds = "recv"
    /\ ds' = "idle"
    /\ ret' = [kind |-> "err"]
    /\ pc' = "pull"
    /\ res' = NoRes
    /\ sctx' = "none"
    /\ hist' = [hist EXCEPT !.upErr = FALSE, !.upSent = @ \/ hist.upErr]
    /\ UNCHANGED <<scope, scopeExit, slicer, slenv, cfg, agg, obatch, ctxDone, up, sub, cancelled>>

\* after a done marker: case o.resultCh <- op.Result{Err: err}; run returns
SendDoneErr ==
    /\ pc = "sendErr"
    /\ ds = "recv"
    /\ ds' = "idle"
    /\ ret' = [kind |-> "err"]
    /\ Exit
    /\ hist' = [hist EXCEPT !.upErr = FALSE, !.upSent = @ \/ hist.upErr]
    /\ UNCHANGED <<scope, scopeExit, slicer, slenv, cfg, agg, obatch, ctxDone, up, sub, cancelled>>

\* --- Op.Pull ----------------------------------------------------------------
\* every Pull(false) starts a producer task
EveryCallDoes(h) == TRUE

\* o.once.Do(f): f runs if no call of Do has run it before
OnceDo(h) == h.started = 0

\* a Pull(false) that starts run without o.rctx.WaitGroup.Add(1)
PullCallWithoutAdd ==
    /\ ds = "idle"
    /\ ds' = "recv"
    /\ pc' = IF pc = "idle" THEN "pull" ELSE pc
    /\ hist' = IF OnceDo(hist) THEN [hist EXCEPT !.started = @ + 1] ELSE hist
    /\ UNCHANGED <<scope, scopeExit, slicer, slenv, cfg, agg, res, sctx, obatch, ret, ctxDone, up, sub, cancelled>>

\* Pull(false): start run once, then wait on resultCh
PullCall ==
    /\ ds = "idle"
    /\ ds' = "recv"
    /\ pc' = IF pc = "idle" THEN "pull" ELSE pc
    /\ hist' = IF OnceDo(hist)
               THEN [hist EXCEPT !.wgAdd = @ + 1, !.started = @ + 1]
               ELSE hist
    /\ UNCHANGED <<scope, scopeExit, slicer, slenv, cfg, agg, res, sctx, obatch, ret, ctxDone, up, sub, cancelled>>

\* Pull(true): offer the done marker on doneCh
PullDoneCall ==
    /\ ds = "idle"
    /\ up.dones > 0
    /\ ds' = "done"
    /\ up' = [up EXCEPT !.dones = @ - 1]
    /\ UNCHANGED <<scope, scopeExit, slicer, slenv, cfg, agg, pc, res, sctx, obatch, ret, ctxDone, sub, cancelled, hist>>

\* Pull(false) finds resultCh closed: return nil, o.rctx.Err()
PullClosed ==
    /\ ds = "recv"
    /\ pc \in {"closed", "exit"}
    /\ ds' = "idle"
    /\ ret' = [kind |-> "closed"]
    /\ UNCHANGED <<scope, scopeExit, slicer, slenv, cfg, agg, pc, res, sctx, obatch, ctxDone, up, sub, cancelled, hist>>

\* Pull(true), case <-o.rctx.Done()
PullDoneCtx ==
    /\ ds = "done"
    /\ ctxDone
    /\ ds' = "idle"
    /\ ret' = [kind |-> "err"]
    /\ UNCHANGED <<scope, scopeExit, slicer, slenv, cfg, agg, pc, res, sctx, obatch, ctxDone, up, sub, cancelled, hist>>

\* the runtime context is cancelled
CtxCancel ==
    /\ ~ctxDone
    /\ up.cancel
    /\ ctxDone' = TRUE
    /\ UNCHANGED <<scope, scopeExit, slicer, slenv, cfg, agg, pc, res, sctx, obatch, ds, ret, up, sub, cancelled, hist>>

\* --- configurations -------------------------------------------------------
Config(dir, limit, pout, recs) ==
    [inputDir |-> dir, limit |-> limit, partialsIn |-> FALSE, partialsOut |-> pout,
     aggs |-> Aggs, recs |-> recs]

\* one key of varying type: 0 as int64 and as uint64 (same payload, equal
\* value), 1 as int64 and 2 as uint64 (same payload, different value)
UnsortedRecs ==
    {InRec(<<I64(0)>>, 1), InRec(<<U64(0)>>, 2), InRec(<<I64(1)>>, 1), InRec(<<U64(2)>>, 2),
     InRec(<<Quiet>>, 1)}

UnsortedConfigs ==
    {Config(0, l, po, UnsortedRecs) : l \in {1, 2, DefaultLimit}, po \in BOOLEAN}

\* two int64 keys, the primary key ascending or descending
SortedRecs == {InRec(<<I64(k1), I64(k2)>>, 1) : k1 \in {1, 2}, k2 \in {1, 2}}

SortedConfigs == {Config(d, l, FALSE, SortedRecs) : d \in {1, -1}, l \in {1, DefaultLimit}}

\* a small input for the runs with errors and cancellation
DriverRecs == {InRec(<<I64(k)>>, 1) : k \in {1, 2}}

DriverConfigs == {Config(d, 1, FALSE, DriverRecs) : d \in {0, 1}}

\* --- specifications -------------------------------------------------------
\* unsorted input, no error, no cancellation
NextUnsorted ==
    \/ UpPullBatch
    \/ UpPullEOS
    \/ NextResultEOF
    \/ SendResult
    \/ PullCall

Init == InitWith(UnsortedConfigs,
                 [batches |-> MaxBatches, eos |-> MaxEOS, errs |-> 0, dones |-> 0,
                  fails |-> 0, cancel |-> FALSE])

Spec == Init /\ [][NextUnsorted]_vars

\* sorted input, done markers, no error
NextSorted ==
    \/ UpPullBatch
    \/ UpPullEOS
    \/ NextResultEOF
    \/ NextResultEarly
    \/ SendResult
    \/ AcceptDone
    \/ PullCall
    \/ PullDoneCall

InitSorted == InitWith(SortedConfigs,
                       [batches |-> MaxSortedBatches, eos |-> MaxEOS, errs |-> 0, dones |-> MaxDone,
                        fails |-> 0, cancel |-> FALSE])

SpecSorted == InitSorted /\ [][NextSorted]_vars

\* two keys, either of which may be quiet; sorted or unsorted input, no error
QuietRecs ==
    {InRec(<<I64(1), I64(1)>>, 1), InRec(<<I64(2), I64(1)>>, 1), InRec(<<Quiet, I64(1)>>, 1),
     InRec(<<I64(1), Quiet>>, 1), InRec(<<I64(2), Quiet>>, 1), InRec(<<Quiet, Quiet>>, 1)}

QuietConfigs == {Config(d, 1, FALSE, QuietRecs) : d \in {0, 1}}

NextQuiet ==
    \/ UpPullBatch
    \/ UpPullEOS
    \/ NextResultEOF
    \/ NextResultEarly
    \/ SendResult
    \/ PullCall

InitQuiet == InitWith(QuietConfigs,
                      [batches |-> MaxBatches, eos |-> MaxEOS, errs |-> 0, dones |-> 0,
                       fails |-> 0, cancel |-> FALSE])

SpecQuiet == InitQuiet /\ [][NextQuiet]_vars

\* two keys, the primary key a number or an error value (an error sorts after
\* every number); sorted ascending or unsorted input, no fault
ErrKeyRecs ==
    {InRec(<<I64(1), I64(1)>>, 1), InRec(<<ErrVal(1), I64(1)>>, 1), InRec(<<ErrVal(1), I64(2)>>, 1)}

ErrKeyConfigs == {Config(d, 1, FALSE, ErrKeyRecs) : d \in {0, 1}}

NextErrKeys ==
    \/ UpPullBatch
    \/ UpPullEOS
    \/ NextResultEOF
    \/ NextResultEarly
    \/ SendResult
    \/ PullCall

InitErrKeys == InitWith(ErrKeyConfigs,
                        [batches |-> MaxBatches, eos |-> MaxEOS, errs |-> 0, dones |-> 0,
                         fails |-> 0, cancel |-> FALSE])

SpecErrKeys == InitErrKeys /\ [][NextErrKeys]_vars

\* sorted and unsorted input without key expressions, and sorted input whose
\* first key may be an error value with a table of two rows
NoKeyRecs == {InRec(<<>>, x) : x \in {1, 2}}

PanicConfigs ==
    {Config(d, 1, FALSE, NoKeyRecs) : d \in {0, 1}} \cup {Config(d, 2, FALSE, ErrKeyRecs) : d \in {1, -1}}

NextPanics ==
    \/ NextErrKeys
    \/ NextResultPanics

InitPanics == InitWith(PanicConfigs,
                       [batches |-> MaxBatches, eos |-> MaxEOS, errs |-> 0, dones |-> 0,
                        fails |-> 0, cancel |-> FALSE])

SpecPanics == InitPanics /\ [][NextPanics]_vars

\* the whole operator: errors, done markers and context cancellation
Next ==
    \/ UpPullBatch
    \/ UpPullEOS
    \/ UpPullErr
    \/ NextResultEOF
    \/ NextResultEarly
    \/ SendResult
    \/ AcceptDone
    \/ SendCtxDone
    \/ SendDoneErr
    \/ PullCall
    \/ PullDoneCall
    \/ PullClosed
    \/ PullDoneCtx
    \/ CtxCancel
    \/ RunCleanup

\* the whole operator with an upstream that may return batches without values
\* for ever
NextLive ==
    \/ Next
    \/ UpPullEmpty
    \/ ConsumeEmpty

\* every upstream pull returns; the producer task runs when it can; a select
\* in sendResult with a ready case proceeds, and a case that is ready again and
\* again is chosen; a Pull that can return does; downstream keeps calling Pull
Fairness ==
    /\ WF_vars(UpPullBatch \/ UpPullEOS \/ UpPullErr \/ UpPullEmpty)
    /\ WF_vars(ConsumeEmpty \/ NextResultEOF \/ NextResultEarly \/ RunCleanup)
    /\ WF_vars(SendResult \/ AcceptDone \/ SendCtxDone \/ SendDoneErr)
    /\ SF_vars(SendCtxDone)
    /\ WF_vars(PullClosed \/ PullDoneCtx)
    /\ WF_vars(PullCall \/ PullDoneCall)

InitDriver == InitWith(DriverConfigs,
                       [batches |-> MaxBatches, eos |-> MaxEOS, errs |-> MaxUpErrs,
                        dones |-> MaxDone, fails |-> MaxSpillFail, cancel |-> TRUE])

SpecDriver == InitDriver /\ [][Next]_vars

\* one batch with values and one end of stream, any number of batches without
\* values, no spill failure
InitLive == InitWith(DriverConfigs,
                     [batches |-> MaxLiveBatches, eos |-> MaxLiveEOS, errs |-> MaxUpErrs,
                      dones |-> MaxDone, fails |-> 0, cancel |-> TRUE])

SpecLive == InitLive /\ [][NextLive]_vars /\ Fairness

\* ------------------------------------------------------------------------
\* meta.Slicer.Pull: one action per call and per iteration of its loop
\* ------------------------------------------------------------------------
\* what the caller has seen since the parent's last null, restarted by the
\* first answer of the parent after a null
SinceNull(e) == IF e.ended THEN [e EXCEPT !.stream = <<>>, !.parts = <<>>, !.ended = FALSE]
                ELSE e

\* Pull returns batch, err: s.mu is released
SlicerReturn(e, batch, err) ==
    [e EXCEPT !.pc = "idle",
              !.ret = IF err THEN [kind |-> "error"]
                      ELSE IF batch = NoBatch THEN [kind |-> "null"]
                      ELSE [kind |-> "partition", part |-> batch],
              !.parts = IF err \/ batch = NoBatch THEN @ ELSE Append(@, batch)]

\* Pull(done): s.mu.Lock(); one caller at a time is inside
SlicerPull ==
    /\ slenv.pc = "idle"
    /\ \E done \in BOOLEAN :
          /\ done => slenv.dones > 0
          /\ slenv' = [slenv EXCEPT !.pc = "pull", !.done = done, !.ret = [kind |-> "none"],
                                    !.dones = IF done THEN @ - 1 ELSE @]
    /\ UNCHANGED <<slicer, scope, scopeExit, cfg, agg, pc, res, sctx, obatch, ds, ret, ctxDone,
                 up, sub, cancelled, hist>>

\* s.parent.Pull(false) returns a batch with one object, Min not before the
\* last one's; s.stash(&object); return if it gives a partition, else loop
SlicerObject ==
    /\ slenv.pc = "pull" /\ ~slenv.done /\ slenv.objects > 0
    /\ \E o \in Objects :
          /\ o.Min >= slenv.lastMin
          /\ LET Stashed(r, e) ==
                      /\ slicer' = r.s
                      /\ slenv' = IF r.batch # NoBatch THEN SlicerReturn(e, r.batch, FALSE) ELSE e
             IN Stashed(stash(slicer, o),
                        [SinceNull(slenv) EXCEPT !.objects = @ - 1, !.lastMin = o.Min,
                                                 !.stream = Append(@, o)])
    /\ UNCHANGED <<scope, scopeExit, cfg, agg, pc, res, sctx, obatch, ds, ret, ctxDone,
                 up, sub, cancelled, hist>>

\* s.parent.Pull(done) returns nil: return s.nextPartition()
SlicerNull ==
    /\ slenv.pc = "pull"
    /\ slenv.done \/ slenv.nulls > 0
    /\ LET Ended(r, e) ==
                /\ slicer' = r.s
                /\ slenv' = [SlicerReturn(e, r.batch, FALSE) EXCEPT !.ended = TRUE]
       IN Ended(nextPartition(slicer),
                [SinceNull(slenv) EXCEPT !.nulls = IF slenv.done THEN @ ELSE @ - 1,
                                         !.streams = @ + 1])
    /\ UNCHANGED <<scope, scopeExit, cfg, agg, pc, res, sctx, obatch, ds, ret, ctxDone,
                 up, sub, cancelled, hist>>

\* s.parent.Pull(done) returns an error, or the object cannot be unmarshaled
SlicerErr ==
    /\ slenv.pc = "pull" /\ slenv.errs > 0
    /\ slenv' = SlicerReturn([slenv EXCEPT !.errs = @ - 1], NoBatch, TRUE)
    /\ UNCHANGED <<slicer, scope, scopeExit, cfg, agg, pc, res, sctx, obatch, ds, ret, ctxDone,
                 up, sub, cancelled, hist>>

\* s.parent.Pull(false) returns a batch without or with several values
SlicerMulti ==
    /\ slenv.pc = "pull" /\ ~slenv.done /\ slenv.errs > 0
    /\ slenv' = SlicerReturn([SinceNull(slenv) EXCEPT !.errs = @ - 1], NoBatch, TRUE)
    /\ UNCHANGED <<slicer, scope, scopeExit, cfg, agg, pc, res, sctx, obatch, ds, ret, ctxDone,
                 up, sub, cancelled, hist>>

NextSlicer ==
    \/ SlicerPull
    \/ SlicerObject
    \/ SlicerNull
    \/ SlicerErr
    \/ SlicerMulti

\* the aggregate operator is not started
SpecSlicer ==
    /\ InitWith({Config(0, 1, FALSE, NoKeyRecs)},
                [batches |-> 0, eos |-> 0, errs |-> 0, dones |-> 0, fails |-> 0,
                 cancel |-> FALSE])
    /\ [][NextSlicer]_vars

\* ------------------------------------------------------------------------
\* Scope.Pull and ScopeExit.Pull
\* ------------------------------------------------------------------------
\* Scope.Pull(done) with s.sendEOS || done: s.sendEOS = false; return nil, nil
ScopePullEOS ==
    /\ scope.pulls < MaxScopePulls
    /\ \E done \in BOOLEAN :
          /\ scope.sendEOS \/ done
          /\ scope' = [scope EXCEPT !.sendEOS = FALSE,
                                    !.prev = scope.ret, !.ret = NullAnswer,
                                    !.done = done, !.pulls = @ + 1]
    /\ UNCHANGED <<scopeExit, slicer, slenv, cfg, agg, pc, res, sctx, obatch, ds, ret, ctxDone,
                 up, sub, cancelled, hist>>

\* Scope.Pull(false) otherwise: vec, err := s.over.Pull(false);
\* s.sendEOS = vec != nil; return vec, err
ScopePullOver ==
    /\ scope.pulls < MaxScopePulls
    /\ ~scope.sendEOS
    /\ \E a \in VecAnswers \cup {NullAnswer, ErrAnswer} :
          scope' = [scope EXCEPT !.sendEOS = (a.kind = "vec"), !.overPulls = @ + 1,
                                 !.prev = scope.ret, !.ret = a,
                                 !.done = FALSE, !.pulls = @ + 1]
    /\ UNCHANGED <<scopeExit, slicer, slenv, cfg, agg, pc, res, sctx, obatch, ds, ret, ctxDone,
                 up, sub, cancelled, hist>>

\* ScopeExit.Pull(done) is called
ScopeExitPull ==
    /\ scopeExit.pc = "idle"
    /\ scopeExit.answers < MaxExitAnswers
    /\ \E done \in BOOLEAN :
          scopeExit' = [scopeExit EXCEPT !.pc = IF done THEN "done" ELSE "pull",
                                         !.done = done, !.ret = NoAnswer]
    /\ UNCHANGED <<scope, slicer, slenv, cfg, agg, pc, res, sctx, obatch, ds, ret, ctxDone,
                 up, sub, cancelled, hist>>

\* Pull(true): vec, err := s.parent.Pull(true); if vec == nil || err != nil
\* { return vec, err }. The parent pipeline starts at the Scope, whose
\* Pull(true) returns nil, nil: the parent answers nil or an error
ScopeExitDone ==
    /\ scopeExit.pc = "done"
    /\ \E a \in {NullAnswer, ErrAnswer} :
          scopeExit' = [scopeExit EXCEPT !.pc = "idle", !.ret = a,
                                         !.answers = @ + 1, !.last = a,
                                         !.items = IF a.kind = "err" THEN @ ELSE LastTwo(@, a)]
    /\ UNCHANGED <<scope, slicer, slenv, cfg, agg, pc, res, sctx, obatch, ds, ret, ctxDone,
                 up, sub, cancelled, hist>>

\* a Pull(false) that returns the vector and leaves s.firstEOS as it is
ScopeExitVecKeepsEOS ==
    /\ scopeExit.pc = "pull"
    /\ \E a \in VecAnswers :
          scopeExit' = [scopeExit EXCEPT !.pc = "idle", !.ret = a,
                                         !.answers = @ + 1, !.last = a, !.passed = @ + 1,
                                         !.items = LastTwo(@, a)]
    /\ UNCHANGED <<scope, slicer, slenv, cfg, agg, pc, res, sctx, obatch, ds, ret, ctxDone,
                 up, sub, cancelled, hist>>

\* Pull(false): s.parent.Pull(false) returns a vector:
\* s.firstEOS = false; return vec, nil
ScopeExitVec ==
    /\ scopeExit.pc = "pull"
    /\ \E a \in VecAnswers :
          scopeExit' = [scopeExit EXCEPT !.pc = "idle", !.ret = a, !.firstEOS = FALSE,
                                         !.answers = @ + 1, !.last = a, !.passed = @ + 1,
                                         !.items = LastTwo(@, a)]
    /\ UNCHANGED <<scope, slicer, slenv, cfg, agg, pc, res, sctx, obatch, ds, ret, ctxDone,
                 up, sub, cancelled, hist>>

\* Pull(false): s.parent.Pull(false) returns nil: return nil, nil if
\* s.firstEOS, else s.firstEOS = true and pull again
ScopeExitNull ==
    /\ scopeExit.pc = "pull"
    /\ scopeExit.firstEOS \/ scopeExit.answers + 1 < MaxExitAnswers
    /\ scopeExit' = [scopeExit EXCEPT !.pc = IF scopeExit.firstEOS THEN "idle" ELSE "pull",
                                      !.ret = IF scopeExit.firstEOS THEN NullAnswer ELSE @,
                                      !.firstEOS = TRUE,
                                      !.skipped = IF scopeExit.firstEOS THEN @ ELSE @ + 1,
                                      !.answers = @ + 1, !.last = NullAnswer,
                                      !.items = LastTwo(@, NullAnswer)]
    /\ UNCHANGED <<scope, slicer, slenv, cfg, agg, pc, res, sctx, obatch, ds, ret, ctxDone,
                 up, sub, cancelled, hist>>

\* Pull(false): s.parent.Pull(false) returns an error: return nil, err
ScopeExitErr ==
    /\ scopeExit.pc = "pull"
    /\ scopeExit' = [scopeExit EXCEPT !.pc = "idle", !.ret = ErrAnswer, !.answers = @ + 1,
                                      !.last = ErrAnswer]
    /\ UNCHANGED <<scope, slicer, slenv, cfg, agg, pc, res, sctx, obatch, ds, ret, ctxDone,
                 up, sub, cancelled, hist>>

NextScope ==
    \/ ScopePullEOS
    \/ ScopePullOver
    \/ ScopeExitPull
    \/ ScopeExitDone
    \/ ScopeExitVec
    \/ ScopeExitNull
    \/ ScopeExitErr

\* the aggregate operator and the Slicer are not started
SpecScope ==
    /\ InitWith({Config(0, 1, FALSE, NoKeyRecs)},
                [batches |-> 0, eos |-> 0, errs |-> 0, dones |-> 0, fails |-> 0,
                 cancel |-> FALSE])
    /\ [][NextScope]_vars

\* ------------------------------------------------------------------------
\* Reference computations
\* ------------------------------------------------------------------------
RECURSIVE SumX(_, _)
SumX(s, I) == IF I = {} THEN 0
              ELSE LET i == CHOOSE j \in I : TRUE IN s[i].x + SumX(s, I \ {i})

NonQuiet(s) == {i \in 1..Len(s) : FirstQuiet(s[i]) = 0}

\* the records of s in the group of key values and types g
Members(s, g) == {i \in NonQuiet(s) : s[i].keys = g}

\* one row per distinct (key values, key types), each record applied once
GroupRows(c, s) ==
    SetToBag({LET I == Members(s, s[i].keys)
              IN OutRec(s[i].keys,
                        Results(c.aggs,
                                <<Cardinality(I), SumX(s, I),
                                  [s |-> SumX(s, I), n |-> Cardinality(I)]>>,
                                c.partialsOut)) : i \in NonQuiet(s)})

\* Consume every record of s, no spill failing
RECURSIVE ConsumeAll(_, _, _, _)
ConsumeAll(c, a, s, i) ==
    IF i > Len(s) THEN a ELSE ConsumeAll(c, Consume(c, a, s[i], "none").a, s, i + 1)

\* nextResult(true) until it returns nil: the possible bags of rows
RECURSIVE DrainFrom(_, _, _)
DrainFrom(c, a, acc) ==
    UNION {IF o.recs = <<>> THEN {acc} ELSE DrainFrom(c, o.a, acc (+) BagOfSeq(o.recs)) :
              o \in nextResult(c, a, TRUE, "none")}

\* the possible outputs of a fresh aggregator on the sub-stream s
RunOutputs(c, s) == DrainFrom(c, ConsumeAll(c, NewAggregator, s, 1), EmptyBag)

\* the rearrangements of a sequence
Rearranged(s) == {[i \in 1..Len(s) |-> s[f[i]]] : f \in Perms(1..Len(s))}

\* a sub-stream of unsorted input has been delivered up to its null, no error
UnsortedDone == sub.closed /\ sub.clean /\ cfg.inputDir = 0

\* ------------------------------------------------------------------------
\* Claims
\* ------------------------------------------------------------------------
\* C1: unsorted mode, no cancellation, no error, every limit >= 1: the batches
\* delivered for a sub-stream hold exactly one row per distinct (key values,
\* key type vector) of its non-quiet records, aggregating each record once.
C1_OneRowPerGroup == UnsortedDone => sub.out = GroupRows(cfg, sub.inp)

\* C2: spill equivalence: the rows delivered with any limit >= 1 are the rows
\* the same input yields with a limit so large that nothing is spilled.
C2_SpillEquivalence ==
    UnsortedDone => \A o \in RunOutputs([cfg EXCEPT !.limit = DefaultLimit], sub.inp) : sub.out = o

\* the table key Consume computes for a record
TableKey(tab, rec) ==
    [i \in 1..(Len(rec.keys) + 1) |->
        IF i <= Len(rec.keys) THEN rec.keys[i].b
        ELSE Lookup(tab, [j \in 1..Len(rec.keys) |-> rec.keys[j].t])]

SameBytes(r, q) == \A i \in 1..Len(r.keys) : r.keys[i].b = q.keys[i].b
SameTypes(r, q) == \A i \in 1..Len(r.keys) : r.keys[i].t = q.keys[i].t

\* C3: type separation: two records share a Group Table entry iff their key
\* bytes and their key types are equal, and records with identical key bytes
\* but different key types yield distinct output rows.
C3_TypeSeparation ==
    /\ \A i, j \in NonQuiet(sub.inp) :
          LET r == sub.inp[i]
              q == sub.inp[j]
          IN (TableKey(agg.keyTypes, r) = TableKey(agg.keyTypes, q))
                 <=> (SameBytes(r, q) /\ SameTypes(r, q))
    /\ UnsortedDone =>
          \A i, j \in NonQuiet(sub.inp) :
              LET r == sub.inp[i]
                  q == sub.inp[j]
              IN (SameBytes(r, q) /\ ~SameTypes(r, q)) =>
                     \E x, y \in BagToSet(sub.out) :
                         x # y /\ x.keys = r.keys /\ y.keys = q.keys

\* C4: permutation invariance: the rows delivered for S are the rows a run on
\* any rearrangement of S delivers.
C4_PermutationInvariance ==
    UnsortedDone => \A p \in Rearranged(sub.inp) : \A o \in RunOutputs(cfg, p) : sub.out = o

\* any one order of the rows of a bag
SeqOfBag(B) ==
    CHOOSE q \in UNION {[1..n -> BagToSet(B)] : n \in 0..BagCardinality(B)} : BagOfSeq(q) = B

C6_EarlyEmitComplete ==
    cfg.inputDir # 0 =>
        \A e \in sub.early : \A i \in (e.n + 1)..Len(sub.inp) :
            valueCompare(cfg, e.prim, Prim(sub.inp[i])) < 0

\* C7: sorted mode output order: the rows delivered for a sub-stream, early
\* batches then the batches at EOF, are non-decreasing in the primary key.
C7_SortedOutput == cfg.inputDir # 0 => sub.sorted

\* the rows delivered for the group of key values and types g
RowsOf(g) == {x \in BagToSet(sub.out) : x.keys = g}

\* C8: sorted mode exactly-once: each group of a sub-stream appears in exactly
\* one delivered row; none is delivered twice and none is lost.
C8_ExactlyOnce ==
    cfg.inputDir # 0 =>
        /\ \A x \in BagToSet(sub.out) : CopiesIn(x, sub.out) = 1 /\ RowsOf(x.keys) = {x}
        /\ (sub.closed /\ sub.clean) =>
               {x.keys : x \in BagToSet(sub.out)} = {sub.inp[i].keys : i \in NonQuiet(sub.inp)}

RECURSIVE TotalCount(_)
TotalCount(B) ==
    IF BagToSet(B) = {} THEN 0
    ELSE LET x == CHOOSE y \in BagToSet(B) : TRUE
         IN x.aggs[1].b * B[x] + TotalCount([y \in BagToSet(B) \ {x} |-> B[y]])

C10_PullDoneReturns == (ds = "done" /\ ~ctxDone) => pc \notin {"idle", "closed", "exit", "sendErr"}

\* C11: spill cleanup on every exit path: when the producer task has
\* terminated, every spill handle it created has had Cleanup called.
C11_CleanupOnExit == pc = "exit" => hist.live = 0

\* the producer has terminated after it created a spill handle
C11_Witness == pc = "exit" /\ hist.created > 0 /\ agg.spiller # Null

\* C12: spill files are deleted before the final result is yielded: when
\* downstream has received the end-of-stream null of a drained sub-stream or
\* the return of a Pull that found the result channel closed, no created
\* spill handle is left without Cleanup.
C12_CleanupBeforeFinal ==
    (ret.kind = "closed" \/ (ret.kind = "null" /\ sub.closed)) => hist.live = 0

\* C13: an error returned by upstream Pull(false) is the next result the
\* producer delivers: the Pull(false) the producer answers while the error is
\* pending returns that error, never a batch or a null.
C13_ErrorNext ==
    [][(hist.upErr /\ pc \in {"send", "sendErr"} /\ ds = "recv" /\ ds' = "idle")
           => (ret'.kind = "err" /\ res.err = "upstream")]_vars

\* an error of upstream has been delivered downstream
C13_Witness == hist.upSent /\ ret.kind = "err" /\ ~hist.upErr

\* C14: a failed spill (in Consume or in the drain at EOF) terminates the
\* producer: after the failure the producer offers the error or has
\* returned, and never pulls upstream again.
C14_FatalTerminates == hist.fatal => pc \in {"send", "sendErr", "closed", "exit"}

\* a record equal to rec with key i evaluating to quiet
QuietAt(rec, i) == [rec EXCEPT !.keys[i] = Quiet]

\* the records the step has given to Consume
Taken == SubSeq(sub'.inp, Len(CurSub.inp) + 1, Len(sub'.inp))

\* C15: quiet keys are a silent drop: a batch whose records all have a quiet
\* key (at any position) is consumed without an error, leaves the Group Table
\* as it was and triggers no spill; the same holds for every record of the
\* input with any one of its keys made quiet.
C15_QuietDropped ==
    /\ [][(pc = "pull" /\ up'.batches < up.batches
               /\ \A i \in 1..Len(Taken) : FirstQuiet(Taken[i]) # 0)
             => (/\ agg'.table = agg.table
                 /\ agg'.spill = agg.spill
                 /\ agg'.spiller = agg.spiller
                 /\ hist'.created = hist.created
                 /\ pc' # "send")]_vars
    /\ [](\A rec \in cfg.recs : \A i \in 1..Len(rec.keys) :
             LET r == Consume(cfg, agg, QuietAt(rec, i), "Spill")
             IN ~r.err /\ r.a.table = agg.table /\ r.a.spill = agg.spill
                       /\ r.a.spiller = agg.spiller)

\* a record whose second key is quiet was consumed while the table was at its limit
C15_Witness ==
    /\ Len(sub.inp) > 0
    /\ sub.inp[Len(sub.inp)].keys[1] # Quiet
    /\ sub.inp[Len(sub.inp)].keys[2] = Quiet
    /\ AtLimit(cfg, agg)
    /\ agg.spiller = Null

\* C16: each input batch is unreferenced exactly once: the producer never
\* releases the reference of a pulled batch twice, and it holds none when it
\* pulls again, waits for the end-of-stream drain or has returned.
C16_UnrefOnce ==
    /\ hist.inref \in {0, 1}
    /\ pc \in {"pull", "drain", "closed", "exit"} => hist.inref = 0

\* C17: type separation survives the spill path: the spilled records
\* nextResultFromSpills combines into one row all have the key types of the
\* first record.
C17_SpillTypeSeparation ==
    \A f \in MinRecs(cfg, agg.spill) :
        \A r \in BagToSet(agg.spill (-) nextResultFromSpills(cfg, agg, f).a.spill) :
            SameTypes(f, r)

\* the distinct groups (key values and types) of the records of s
Groups(s) == {s[i].keys : i \in NonQuiet(s)}

\* Consume spills exactly when the record's key is absent from the table and
\* the table holds limit rows or more; the table never holds more than limit rows
SpillsAtLimit ==
    /\ \A rec \in cfg.recs :
          FirstQuiet(rec) = 0 =>
              ((Consume(cfg, agg, rec, "none").a.spill # agg.spill)
                  <=> (/\ TableKey(agg.keyTypes, rec) \notin DOMAIN agg.table
                       /\ Cardinality(DOMAIN agg.table) >= cfg.limit))
    /\ Cardinality(DOMAIN agg.table) <= cfg.limit

\* C18 (as claimed): spill trigger and table bound: Consume spills exactly
\* when the record's key is absent from the table and the table holds limit
\* rows or more; the table never holds more than limit rows; an input with
\* more distinct groups than limit has created a spill.
C18_SpillTrigger ==
    /\ SpillsAtLimit
    /\ Cardinality(Groups(sub.inp)) > cfg.limit => hist.created > 0

\* C18 (amended): the trigger and the table bound as claimed; an input with
\* more distinct groups than limit has created a spill if none of its rows
\* was delivered before the end of the sub-stream (always so for unsorted
\* input) and no spill has failed.
C18_SpillTriggerNoEarly ==
    /\ SpillsAtLimit
    /\ (Cardinality(Groups(sub.inp)) > cfg.limit /\ sub.early = {} /\ sub.clean)
           => hist.created > 0

\* the first sub-stream has more groups than the limit, none delivered early,
\* and the table is full again after the spill
C18_Witness ==
    /\ up.eos = MaxEOS
    /\ sub.early = {}
    /\ Cardinality(Groups(sub.inp)) > cfg.limit
    /\ Cardinality(DOMAIN agg.table) = cfg.limit
    /\ BagToSet(agg.spill) # {}

\* C19: in sorted mode maxTableKey never decreases under the configured
\* direction over the whole life of the operator, and after each Consume it
\* is at or after the primary key of every record consumed.
C19_MaxTableKeyMonotone ==
    /\ [][agg.maxTableKey # Nil =>
              (/\ agg'.maxTableKey # Nil
               /\ valueCompare(cfg, agg.maxTableKey, agg'.maxTableKey) <= 0)]_vars
    /\ [](\A i \in 1..Len(sub.inp) :
              /\ agg.maxTableKey # Nil
              /\ valueCompare(cfg, Prim(sub.inp[i]), agg.maxTableKey) <= 0)

\* a sub-stream after a restart or a cancellation whose last consumed primary
\* key is before the maximum kept from the sub-stream before it
C19_Witness ==
    /\ up.last # Nil
    /\ agg.maxTableKey # Nil
    /\ valueCompare(cfg, up.last, agg.maxTableKey) < 0

\* C20: in sorted mode the groupval of a row equals the first key of the
\* record that created the row, in every sub-stream.
C20_GroupvalIsFirstKey ==
    cfg.inputDir # 0 =>
        \A k \in DOMAIN agg.table : agg.table[k].groupval = KeysOf(agg, k, agg.table[k])[1]

\* C21: in sorted mode, whenever spilled records of the current sub-stream
\* exist, maxSpillKey is the largest primary key among them: no spilled record
\* has a larger one and some spilled record has exactly this one.
C21_MaxSpillKeyIsLargest ==
    (cfg.inputDir # 0 /\ BagToSet(agg.spill) # {}) =>
        /\ agg.maxSpillKey # Nil
        /\ \A r \in BagToSet(agg.spill) : valueCompare(cfg, r.keys[1], agg.maxSpillKey) <= 0
        /\ \E r \in BagToSet(agg.spill) : valueCompare(cfg, r.keys[1], agg.maxSpillKey) = 0

\* C22: before EOF readSpills consumes no record whose primary key is at or
\* after maxSpillKey: every record an early read takes out of the merged
\* spills has a primary key strictly before maxSpillKey; for unsorted input
\* readSpills before EOF consumes nothing.
C22_ReadSpillsStops ==
    /\ [][pc = "early" =>
              \A r \in BagToSet(agg.spill (-) agg'.spill) :
                  /\ agg.maxSpillKey # Nil
                  /\ valueCompare(cfg, r.keys[1], agg.maxSpillKey) < 0]_vars
    /\ [](cfg.inputDir = 0 => readSpills(cfg, agg, FALSE) = {[a |-> agg, recs |-> <<>>]})

\* the spilled records whose key values and key types are those of f
KeyRun(spill, f) == [r \in {q \in BagToSet(spill) : q.keys = f.keys} |-> spill[r]]

\* C23: merge combination: a call of nextResultFromSpills takes out of the
\* merged spills exactly the records whose full key tuple is that of the first
\* record, and yields one row: that key with every record of the run consumed
\* once as a partial on fresh aggregator states.
C23_MergeCombination ==
    \A f \in MinRecs(cfg, agg.spill) :
        LET n == nextResultFromSpills(cfg, agg, f)
        IN /\ agg.spill (-) n.a.spill = KeyRun(agg.spill, f)
           /\ n.rec = OutRec(f.keys,
                             Results(cfg.aggs,
                                     ConsumeRun(cfg.aggs, newValRow(cfg.aggs),
                                                KeyRun(agg.spill, f)),
                                     cfg.partialsOut))

\* C24: once a spill exists no row is produced directly from the table:
\* nextResult(eof) leaves the table empty, every row it returns is the merge
\* of all spilled partials of its key (no record with that key stays spilled,
\* no two rows share a key, the rows and the records left account for every
\* record of the table and the spills), and it returns nil only when table
\* and spills are exhausted; before EOF it leaves the table as it is.
C24_SpillThenMerge ==
    agg.spiller # Null =>
        /\ \A o \in nextResult(cfg, agg, TRUE, "none") :
              /\ ~o.err
              /\ DOMAIN o.a.table = {}
              /\ o.recs = <<>> => (DOMAIN agg.table = {} /\ BagToSet(agg.spill) = {})
              /\ \A i, j \in 1..Len(o.recs) :
                    i # j => keysComparator(cfg, o.recs[i], o.recs[j]) # 0
              /\ \A i \in 1..Len(o.recs) : \A q \in BagToSet(o.a.spill) :
                    keysComparator(cfg, o.recs[i], q) # 0
              /\ TotalCount(BagOfSeq(o.recs)) + TotalCount(o.a.spill)
                    = TotalCount(agg.spill)
                          + TotalCount(SetToBag(readTableRecs(cfg, agg, TRUE, TRUE)))
        /\ \A o \in nextResult(cfg, agg, FALSE, "none") : o.a.table = agg.table

\* the drain at EOF has returned rows while a spill exists and a group of the
\* sub-stream was spilled more than once
C24_Witness ==
    /\ pc = "send" /\ sctx = "drain" /\ agg.spiller # Null
    /\ \E i \in 1..Len(res.recs) : res.recs[i].aggs[1].b > 1
    /\ Cardinality(Groups(sub.inp)) < Len(sub.inp)

\* the aggregate values of a record are partials (the avg is a sum and a count)
IsPartial(r) == r.aggs[3].t = "record"

\* C25: spilled records always carry partial aggregates, whatever partialsOut
\* is, and spillTable leaves the table empty; the rows delivered carry results
\* when partialsOut is false and partials when it is true, from the table and
\* from the merged spills.
C25_PartialForms ==
    /\ \A r \in BagToSet(agg.spill) : IsPartial(r)
    /\ DOMAIN spillTable(cfg, agg, sub.eof, "none").a.table = {}
    /\ \A r \in BagToSet(sub.out) \cup Range(res.recs) : IsPartial(r) <=> cfg.partialsOut

\* rows of the merged spills are offered as results (not partials) while
\* their spilled records were partials
C25_Witness ==
    /\ ~cfg.partialsOut /\ cfg.limit = 1
    /\ pc = "send" /\ agg.spiller # Null
    /\ Len(res.recs) > 1

\* C26: sorted mode without spills: the early-emit step after a consumed
\* batch emits and removes exactly the rows whose groupval is before
\* maxTableKey; once the step is over every row left has groupval equal to
\* maxTableKey, and no row with groupval at or after maxTableKey is emitted
\* before EOF.
C26_EarlyEmitStep ==
    /\ [][(pc = "early" /\ pc' # "early" /\ agg.spiller = Null) =>
              \A k \in DOMAIN agg.table :
                  (k \notin DOMAIN agg'.table)
                      <=> (valueCompare(cfg, agg.table[k].groupval, agg.maxTableKey) < 0)]_vars
    /\ []((cfg.inputDir # 0 /\ agg.spiller = Null /\ pc \in {"pull", "drain", "send"}) =>
              \A k \in DOMAIN agg.table : agg.table[k].groupval = agg.maxTableKey)

\* an early batch is offered and a row of the largest primary key stays in the table
C26_Witness ==
    /\ pc = "send" /\ sctx = "early" /\ agg.spiller = Null
    /\ res.recs # <<>>
    /\ DOMAIN agg.table # {}


\* C27: draining: after upstream has returned the end of a sub-stream, and
\* while no error, done marker or context cancellation interrupts, the
\* producer does not pull upstream before downstream has received the
\* end-of-stream null; a null is handed over only for such an end of
\* sub-stream, once, with the table and the spills exhausted and a row
\* delivered for every group; and with downstream pulling the null is
\* eventually received.
C27_Draining ==
    /\ []((sub.eof /\ ~sub.closed /\ sub.clean) => pc \notin {"pull", "values", "early"})
    /\ [][(pc = "send" /\ ds = "recv" /\ ds' = "idle" /\ ret'.kind = "null") =>
              /\ sub.eof /\ ~sub.closed /\ sub'.closed
              /\ pc' = "pull"
              /\ DOMAIN agg.table = {} /\ agg.spill = EmptyBag
              /\ \A g \in Groups(sub.inp) : \E r \in BagToSet(sub'.out) : r.keys = g]_vars
    /\ ((sub.eof /\ ~sub.closed) ~> (sub.closed \/ ~sub.eof \/ ~sub.clean \/ ctxDone))

\* the end-of-stream null has been received after two batches of rows
C27_Witness == sub.closed /\ pc = "pull" /\ Cardinality(BagToSet(sub.out)) > 1

\* C30: cooperative cancellation: once the context is cancelled, a producer
\* task that has been started eventually terminates, with the result channel
\* closed, and a Pull(false) waiting for a result eventually returns (upstream
\* pulls always return: SpecLive).
C30_CooperativeCancel ==
    /\ (ctxDone /\ pc # "idle") ~> (pc = "exit")
    /\ (ctxDone /\ ds = "recv") ~> (ds = "idle")

\* C28: restarting: when an end-of-stream null is offered and when it has
\* been received, Resetter.Reset has been called since the last record of the
\* finished sub-stream was consumed, and no record of the next sub-stream is
\* consumed without such a call; once the null has been received the
\* producer pulls upstream holding no batch of the finished sub-stream.
C28_Restarting ==
    /\ []((pc = "send" /\ res.recs = <<>>) => hist.reset)
    /\ [](sub.closed => hist.reset)
    /\ [][(sub.closed /\ sub'.inp # <<>> /\ ~sub'.closed) => hist.reset]_vars
    /\ []((sub.closed /\ pc = "pull") => (~obatch /\ hist.inref = 0))

\* records of a second sub-stream have been consumed after the null of the
\* first one was received
C28_Witness ==
    /\ sub.inp # <<>> /\ ~sub.eof /\ ~sub.closed
    /\ up.eos < MaxEOS /\ ~cancelled /\ ~hist.upSent /\ ~hist.reset

\* the steps of the cancellation protocol in the order of the claim
ProtocolOrder ==
    <<"unrefResult", "cleanup", "dropSpiller", "newTable", "unrefBatch", "resetterReset", "pullDone">>

ProtocolPos(x) == CHOOSE i \in DOMAIN ProtocolOrder : ProtocolOrder[i] = x

\* C29: cancellation protocol order: between the acceptance of a done marker
\* and the next upstream Pull(false), the producer has released the
\* undelivered batch, cleaned up and dropped the spill handle, replaced the
\* table, released the held batch, called Resetter.Reset and pulled upstream
\* once with done = true, in this order (a step that has nothing to act on is
\* skipped); every row delivered after the marker aggregates only records
\* consumed after it.
C29_CancellationOrder ==
    /\ hist.proto # <<>> =>
          /\ \A i, j \in DOMAIN hist.proto :
                i < j => ProtocolPos(hist.proto[i]) < ProtocolPos(hist.proto[j])
          /\ {"newTable", "resetterReset", "pullDone"} \subseteq Range(hist.proto)
          /\ hist.proto[Len(hist.proto)] = "pullDone"
          /\ agg.spiller = Null /\ agg.spill = EmptyBag
          /\ agg.table = <<>>
          /\ ~obatch
          /\ hist.reset
          /\ res.recs = <<>>
    /\ cancelled =>
          \A r \in BagToSet(sub.out) \cup Range(res.recs) :
              r.aggs[1].b <= Cardinality(Members(sub.inp, r.keys))

\* a done marker was accepted while a batch of rows merged from the spills
\* was undelivered and the producer held an input batch
C29_Witness == Len(hist.proto) = 7 /\ pc = "pull"

C37_WaitGroupHandshake ==
    /\ hist.wgAdd = hist.started
    /\ hist.wgDone <= hist.wgAdd
    /\ hist.wgAdd <= 1
    /\ (hist.wgDone = 1) <=> (pc = "exit")
    /\ (hist.wgAdd = hist.wgDone) => hist.live = 0

\* the producer has signalled the WaitGroup after it had created a spill
C37_Witness == hist.wgDone = 1 /\ hist.wgAdd = 1 /\ hist.created > 0 /\ hist.live = 0

\* C32: an error of the upstream Pull(true) made for a done marker, or an
\* error that was pending when the marker arrived (it takes precedence), is
\* what the producer offers next; it leaves this offer only by terminating:
\* either a Pull(false) receives the error, or the context is cancelled and
\* nothing is delivered.
C32_DoneErrorDelivered ==
    /\ [][(pc = "send" /\ ds = "done" /\ ds' = "idle" /\ pc' # "send"
               /\ (res.err # "none" \/ up'.errs < up.errs)) =>
              /\ pc' = "sendErr"
              /\ res'.err = (IF res.err # "none" THEN res.err ELSE "upstream")]_vars
    /\ [](pc = "sendErr" => (res.err # "none" /\ res.recs = <<>>))
    /\ [][(pc = "sendErr" /\ pc' # "sendErr") =>
              /\ pc' = "closed"
              /\ \/ ds = "recv" /\ ds' = "idle" /\ ret'.kind = "err"
                 \/ ctxDone /\ ds' = ds /\ ret' = ret]_vars

\* the error of a done marker's upstream pull has been received and the
\* producer has returned, the context not being cancelled
C32_Witness ==
    /\ cancelled /\ pc = "closed" /\ ret.kind = "err"
    /\ ~ctxDone /\ up.fails = MaxSpillFail /\ hist.upSent

\* the batches run may send before EOF after its aggregator, in state a, has
\* consumed a batch
EarlyBatches(c, a, batch) ==
    {SortStable(c, o.recs) :
        o \in nextResult(c, ConsumeFrom(c, a, batch, 1, 0, "none").a, FALSE, "none")}

\* C33: sub-stream isolation: in sorted mode, at the start of every
\* sub-stream (after an end of stream or a done marker, no record consumed
\* yet) the operator answers every first batch as a freshly constructed
\* operator does: the same rows are delivered before EOF, in the same batch.
C33_SubStreamIsolation ==
    (cfg.inputDir # 0 /\ pc = "pull" /\ CurSub.inp = <<>>) =>
        \A batch \in SeqsUpTo(cfg.recs, MaxBatchLen) :
            SortedAfter(cfg, Nil, batch) =>
                EarlyBatches(cfg, agg, batch) = EarlyBatches(cfg, NewAggregator, batch)

\* C34: the panic of readTable is unreachable from Op.Pull: run asks for
\* completed rows (nextResult with eof = false) only when the input is
\* sorted, and whenever it does so with a non-empty table and no spill, the
\* aggregator has a value comparator and a.maxTableKey is set; this for every
\* configuration, those without key expressions included.
C34_NoReadTablePanic ==
    /\ pc = "early" => cfg.inputDir # 0
    /\ (pc = "early" /\ agg.spiller = Null /\ DOMAIN agg.table # {}) =>
           (HasValueCompare(cfg) /\ agg.maxTableKey # Nil)
    /\ ~(pc = "panic" /\ agg.spiller = Null)

\* C35: in sorted mode, whenever readSpills is called before EOF and will
\* compare a spilled record's first key with a.maxSpillKey (the key is no
\* error value), a.maxSpillKey is set.
C35_MaxSpillKeyDefined ==
    /\ (pc = "early" /\ agg.spiller # Null /\ \E r \in BagToSet(agg.spill) : ~IsError(Prim(r))) =>
           agg.maxSpillKey # Nil
    /\ ~(pc = "panic" /\ agg.spiller # Null)

RECURSIVE PartObjects(_)
PartObjects(parts) ==
    IF parts = <<>> THEN <<>> ELSE parts[1].Objects \o PartObjects(Tail(parts))

C39_ScopeEOSProtocol ==
    /\ [](scope.sendEOS <=> scope.ret.kind = "vec")
    /\ [](scope.prev.kind = "vec" => scope.ret = NullAnswer)
    /\ [][(scope' # scope /\ scope.ret.kind = "vec")
             => scope'.overPulls = scope.overPulls]_vars
    /\ [][(scope' # scope /\ scope.prev.kind = "vec" /\ ~scope'.done)
             => scope'.overPulls = scope.overPulls + 1]_vars
    /\ [][(scopeExit.pc = "pull" /\ scopeExit'.answers > scopeExit.answers
               /\ scopeExit'.last.kind = "vec")
             => (scopeExit'.pc = "idle" /\ scopeExit'.ret = scopeExit'.last)]_vars
    /\ []((scopeExit.pc = "idle" /\ ~scopeExit.done /\ scopeExit.ret.kind = "null")
             => scopeExit.items = <<NullAnswer, NullAnswer>>)
    /\ [][(scopeExit.pc = "pull" /\ scopeExit'.answers > scopeExit.answers
               /\ scopeExit'.last.kind = "null"
               /\ scopeExit.last.kind = "vec")
             => (scopeExit'.pc = "pull" /\ scopeExit'.ret = NoAnswer)]_vars

\* Scope has returned a vector and then, to a Pull(false), its null;
\* ScopeExit has returned a vector, pulled again after the null that followed
\* it, and returned the next null
C39_Witness ==
    /\ scope.prev.kind = "vec" /\ scope.ret = NullAnswer /\ ~scope.done
    /\ scopeExit.pc = "idle" /\ ~scopeExit.done /\ scopeExit.ret = NullAnswer
    /\ scopeExit.answers = 3 /\ scopeExit.passed = 1 /\ scopeExit.skipped = 1
====
